---------------------------- MODULE Spec2Model ----------------------------
(***************************************************************************)
(* Model of the two binary decoders of treeofsavior-tools:                 *)
(*   ies.py  IesFile     table file  -> table_name, columns, rows          *)
(*   ipf.py  IpfArchive  archive     -> files index, get_data, extract_all *)
(* Byte strings are sequences of 0..255.  A file handle is the pair of the *)
(* file's bytes and a cursor.  Python exceptions are the control state     *)
(* "raised".                                                               *)
(***************************************************************************)
EXTENDS Integers, Sequences, FiniteSets, TLC

VARIABLES
  \* ---- string codec (ies.py _decrypt_string), exercised on its own
  strS, strEnc, strOut, strPc,
  \* ---- IesFile
  iesDecl,      \* the column records the input file declares (input, never written)
  iesData,      \* bytes of the file behind file_handle
  iesPos,       \* cursor of file_handle
  iesPc,        \* position in IesFile._open
  iesHdr,       \* data_offset, resource_offset, row_count, column_count, string_column_count
  table_name, columns, rows,
  iesI,         \* loop counter of the row loop
  intval,       \* local variable intval of _open (unbound until first assigned)
  iesShort,     \* history: which reads of the row block came back shorter than announced
  \* ---- IpfArchive
  ipfEntries,   \* the entries the input archive was packed from (input, never written)
  ipfData,      \* bytes of the archive behind file_handle
  ipfPos,       \* cursor of file_handle
  ipfPc,        \* position in IpfArchive._open: start, table, ready, raised
  ipfHdr,       \* the unpacked footer
  files,        \* self.files: lowercased filename -> IpfInfo
  ipfI,         \* loop counter of the file-table loop
  gdPc, gdArg, gdResult,   \* the last get_data call: its argument and what it returned
  exPc,         \* extract_all: idle, running, done, raised
  exTodo,       \* keys the loop of extract_all has not reached yet
  exReported,   \* keys for which 'Could not unpack' was printed
  fsys,         \* the file system: [files: path -> content, dirs: set of paths]
  fsys0,        \* history: the file system when extract_all was called
  output_dir,   \* argument of extract_all
  \* ---- two get_data calls in flight, each a seek step and a read step
  cShared,      \* TRUE: both calls use one handle; FALSE: each call has its own
  cPos,         \* handle -> cursor
  cPc,          \* call -> start, sought, done
  cName,        \* call -> filename argument
  cFrom,        \* call -> cursor position its read started at
  cBuf,         \* call -> bytes its read returned
  cResult       \* call -> what get_data returned

strVars == <<strS, strEnc, strOut, strPc>>
iesVars == <<iesDecl, iesData, iesPos, iesPc, iesHdr, table_name, columns, rows,
             iesI, intval, iesShort>>
ipfVars == <<ipfEntries, ipfData, ipfPos, ipfPc, ipfHdr, files, ipfI, gdPc, gdArg, gdResult,
             exPc, exTodo, exReported, fsys, fsys0, output_dir>>
concVars == <<cShared, cPos, cPc, cName, cFrom, cBuf, cResult>>
vars == <<strVars, iesVars, ipfVars, concVars>>

-----------------------------------------------------------------------------
(* Bounds of the model                                                     *)
MaxStrLen == 3      \* longest byte string given to the codec
MaxCols   == 3      \* most column records in a generated table file
MaxRows   == 1      \* most rows in a generated table file
MaxCut    == 2      \* most bytes missing at the end of a generated table file
MaxEntries == 2     \* most entries in a generated archive

(* Layout constants of the formats                                         *)
NameLen      == 64  \* read(64) of a column label
TableNameLen == 128 \* read(128) of the table name

-----------------------------------------------------------------------------
(* Byte-string helpers                                                     *)
Min(a, b) == IF a < b THEN a ELSE b

\* file.read(n) at cursor pos: at most n bytes, fewer at end of file
ReadBytes(data, pos, n) ==
  IF pos >= Len(data) THEN <<>> ELSE SubSeq(data, pos + 1, Min(pos + n, Len(data)))

\* the cursor after file.read(n)
ReadPos(data, pos, n) ==
  IF pos >= Len(data) THEN pos ELSE Min(pos + n, Len(data))

\* struct.unpack('<H', b) and '<I': little-endian unsigned
U16(b) == b[1] + 256 * b[2]
U32(b) == b[1] + 256 * b[2] + 65536 * b[3] + 16777216 * b[4]

\* ord(c) ^ 0x01
Xor1(b) == IF b % 2 = 0 THEN b + 1 ELSE b - 1

RECURSIVE LStrip(_, _)
LStrip(s, c) ==
  IF s # <<>> /\ Head(s) = c THEN LStrip(Tail(s), c) ELSE s

RECURSIVE RStrip(_, _)
RStrip(s, c) ==
  IF s # <<>> /\ s[Len(s)] = c THEN RStrip(SubSeq(s, 1, Len(s) - 1), c) ELSE s

\* str.strip(chars) for one character: both ends
Strip(s, c) == RStrip(LStrip(s, c), c)

\* a plausible slip: XOR first, strip the result
decrypt_string_strip_after(string) ==
  Strip([i \in DOMAIN string |-> Xor1(string[i])], 0)

\* IesFile._decrypt_string
decrypt_string(string) ==
  LET t == Strip(string, 0) IN [i \in DOMAIN t |-> Xor1(t[i])]

-----------------------------------------------------------------------------
(* The codec on its own: encode XORs every byte with 0x01 (the inverse the *)
(* format's writer applies), then _decrypt_string decodes.                 *)
StrAlphabet == {0, 1, 2, 65}

RECURSIVE SeqsUpTo(_, _)
SeqsUpTo(S, n) ==
  IF n = 0 THEN {<<>>}
  ELSE LET shorter == SeqsUpTo(S, n - 1)
       IN shorter \cup {Append(q, x) : q \in {p \in shorter : Len(p) = n - 1}, x \in S}

encode(s) == [i \in DOMAIN s |-> Xor1(s[i])]

StrInit ==
  /\ strS \in SeqsUpTo(StrAlphabet, MaxStrLen)
  /\ strEnc = <<>>
  /\ strOut = <<>>
  /\ strPc = "start"

StrEncode ==
  /\ strPc = "start"
  /\ strEnc' = encode(strS)
  /\ strPc' = "encoded"
  /\ UNCHANGED <<strS, strOut>>
  /\ UNCHANGED <<iesVars, ipfVars, concVars>>

StrDecrypt ==
  /\ strPc = "encoded"
  /\ strOut' = decrypt_string(strEnc)
  /\ strPc' = "done"
  /\ UNCHANGED <<strS, strEnc>>
  /\ UNCHANGED <<iesVars, ipfVars, concVars>>

-----------------------------------------------------------------------------
(* IesFile._open: pure steps                                               *)

IsAscii(s) == \A i \in DOMAIN s : s[i] < 128

NoHeader == [data_offset |-> 0, resource_offset |-> 0, row_count |-> 0,
             column_count |-> 0, string_column_count |-> 0]

\* lines 38-61: table name, the two fixed headers, the seek to the column block.
\* read(128).encode('utf-8') decodes as ASCII first and raises on a byte >= 128;
\* struct.unpack raises on a short buffer; seek raises on a negative target.
IesHeader(data) ==
  LET name == ReadBytes(data, 0, TableNameLen)
      p1   == ReadPos(data, 0, TableNameLen)
      b1   == ReadBytes(data, p1, 16)
      p2   == ReadPos(data, p1, 16)
      b2   == ReadBytes(data, p2, 12)
      p3   == ReadPos(data, p2, 12)
  IN  IF ~IsAscii(name) \/ Len(b1) # 16 \/ Len(b2) # 12
      THEN [err |-> TRUE, table_name |-> <<>>, hdr |-> NoHeader, pos |-> p3]
      ELSE LET h == [data_offset         |-> U32(SubSeq(b1, 5, 8)),
                     resource_offset     |-> U32(SubSeq(b1, 9, 12)),
                     row_count           |-> U16(SubSeq(b2, 3, 4)),
                     column_count        |-> U16(SubSeq(b2, 5, 6)),
                     string_column_count |-> U16(SubSeq(b2, 9, 10))]
               target == Len(data) - h.resource_offset - h.data_offset
           IN  IF target < 0
               THEN [err |-> TRUE, table_name |-> name, hdr |-> h, pos |-> p3]
               ELSE [err |-> FALSE, table_name |-> name, hdr |-> h, pos |-> target]

NoColumn == [name |-> <<>>, name2 |-> <<>>, type |-> 0, position |-> 0, unknown |-> 0]

\* lines 64-70: one column record, 64 + 64 + 8 bytes
ReadColumn(data, pos) ==
  LET b1 == ReadBytes(data, pos, NameLen)
      p1 == ReadPos(data, pos, NameLen)
      b2 == ReadBytes(data, p1, NameLen)
      p2 == ReadPos(data, p1, NameLen)
      b3 == ReadBytes(data, p2, 8)
      p3 == ReadPos(data, p2, 8)
  IN  IF Len(b3) # 8
      THEN [err |-> TRUE, column |-> NoColumn, pos |-> p3]
      ELSE [err |-> FALSE, pos |-> p3,
            column |-> [name     |-> decrypt_string(b1),
                        name2    |-> decrypt_string(b2),
                        type     |-> U16(SubSeq(b3, 1, 2)),
                        unknown  |-> U32(SubSeq(b3, 3, 6)),
                        position |-> U16(SubSeq(b3, 7, 8))]]

\* a plausible slip: type 2 forgotten in the string test
IsStrTypeOnly1(t) == t = 1

\* line 73 and line 111: coltype in (1, 2)
IsStrType(t) == t \in {1, 2}

\* lines 63-74: the column loop, classifying into int_columns and str_columns
RECURSIVE ReadColumns(_, _, _, _, _)
ReadColumns(data, pos, n, ints, strs) ==
  IF n = 0
  THEN [err |-> FALSE, int_columns |-> ints, str_columns |-> strs, pos |-> pos]
  ELSE LET r == ReadColumn(data, pos)
           c == r.column
       IN  IF r.err
           THEN [err |-> TRUE, int_columns |-> ints, str_columns |-> strs, pos |-> r.pos]
           ELSE ReadColumns(data, r.pos, n - 1,
                            IF c.type = 0 THEN Append(ints, c) ELSE ints,
                            IF c.type # 0 /\ IsStrType(c.type) THEN Append(strs, c) ELSE strs)

\* c goes after every element whose position is <= its own
InsertByPosition(s, c) ==
  LET k == Cardinality({i \in DOMAIN s : s[i].position <= c.position})
  IN  SubSeq(s, 1, k) \o <<c>> \o SubSeq(s, k + 1, Len(s))

\* a plausible slip: the list left in declaration order
Unsorted(s) == s

\* sorted(s, key=lambda c: c['position']): ascending and stable
RECURSIVE SortedByPosition(_)
SortedByPosition(s) ==
  IF s = <<>> THEN <<>>
  ELSE InsertByPosition(SortedByPosition(SubSeq(s, 1, Len(s) - 1)), s[Len(s)])

\* line 80
ColumnsOf(ints, strs) == SortedByPosition(ints) \o SortedByPosition(strs)

\* struct.unpack('<f', buf): sign, biased exponent and fraction of the binary32
FloatSign(buf) == buf[4] \div 128
FloatExp(buf)  == (buf[4] % 128) * 2 + buf[3] \div 128
FloatFrac(buf) == (buf[3] % 128) * 65536 + buf[2] * 256 + buf[1]

Pow2(n) == 2 ^ n

\* int(floatval) raises for nan and the infinities
FloatIsFinite(buf) == FloatExp(buf) # 255

\* floatval == int(floatval)
FloatIsIntegral(buf) ==
  LET e == FloatExp(buf)
      m == FloatFrac(buf)
  IN  IF e = 0 THEN m = 0
      ELSE IF e < 127 THEN FALSE
      ELSE IF e >= 150 THEN TRUE
      ELSE m % Pow2(150 - e) = 0

\* int(floatval): truncation toward zero.  Magnitudes of 2^31 and more do not
\* fit TLC's integers; they are kept as 0 here and the value record
\* carries the float's bytes instead.
FloatTrunc(buf) ==
  LET e   == FloatExp(buf)
      m   == FloatFrac(buf)
      mag == IF e < 127 THEN 0
             ELSE IF e < 150 THEN (8388608 + m) \div Pow2(150 - e)
             ELSE IF e < 158 THEN (8388608 + m) * Pow2(e - 150)
             ELSE 0
  IN  IF FloatSign(buf) = 1 THEN 0 - mag ELSE mag

IntValue(buf)   == [kind |-> "int", n |-> FloatTrunc(buf),
                    s |-> IF FloatExp(buf) >= 158 THEN buf ELSE <<>>]
FloatValue(buf) == [kind |-> "float", n |-> 0, s |-> buf]
StrValue(s)     == [kind |-> "str", n |-> 0, s |-> s]
NoneValue       == [kind |-> "none", n |-> 0, s |-> <<>>]

UnboundInt == [bound |-> FALSE, val |-> NoneValue]

\* a plausible slip: the else branch of "if length:" left out
EmptyStringValueDropped(row) == row

\* lines 120-121: row.append('')
EmptyStringValue(row) == Append(row, StrValue(<<>>))

\* lines 98-121: one value of a row.  st carries the cursor, the local intval,
\* the row built so far and the short reads seen.
ReadValue(data, col, st) ==
  IF col.type = 0
  THEN LET buf == ReadBytes(data, st.pos, 4)
           p   == ReadPos(data, st.pos, 4)
       IN  IF Len(buf) # 4
           THEN [st EXCEPT !.err = TRUE, !.pos = p]
           ELSE IF FloatIsFinite(buf)
           THEN LET iv == [bound |-> TRUE, val |-> IntValue(buf)]
                IN  [st EXCEPT !.pos = p, !.intval = iv,
                               !.row = Append(st.row, IF FloatIsIntegral(buf)
                                                      THEN IntValue(buf)
                                                      ELSE FloatValue(buf))]
           \* int() raised: floatval = None, intval keeps its old value;
           \* reading an unassigned intval raises NameError
           ELSE IF ~st.intval.bound
           THEN [st EXCEPT !.err = TRUE, !.pos = p]
           ELSE [st EXCEPT !.pos = p, !.row = Append(st.row, NoneValue)]
  ELSE IF IsStrType(col.type)
  THEN LET buf == ReadBytes(data, st.pos, 2)
           p   == ReadPos(data, st.pos, 2)
       IN  IF Len(buf) # 2
           THEN [st EXCEPT !.err = TRUE, !.pos = p]
           ELSE LET length == U16(buf)
                    sb     == ReadBytes(data, p, length)
                IN  IF length # 0
                    THEN [st EXCEPT !.pos = ReadPos(data, p, length),
                                    !.row = Append(st.row, StrValue(decrypt_string(sb))),
                                    !.short = IF Len(sb) < length
                                              THEN st.short \cup {"string"} ELSE st.short]
                    ELSE [st EXCEPT !.pos = p, !.row = EmptyStringValue(st.row)]
  ELSE st

\* line 97: for j in range(len(self.columns))
RECURSIVE ReadValues(_, _, _, _)
ReadValues(data, cols, j, st) ==
  IF st.err \/ j > Len(cols) THEN st
  ELSE ReadValues(data, cols, j + 1, ReadValue(data, cols[j], st))

\* lines 91-123: one row
ReadRow(data, pos, cols, iv, scc, short) ==
  LET buf == ReadBytes(data, pos, 6)
      p1  == ReadPos(data, pos, 6)
      st0 == [err |-> FALSE, pos |-> p1, intval |-> iv, row |-> <<>>, short |-> short]
  IN  IF Len(buf) # 6
      THEN [st0 EXCEPT !.err = TRUE]
      ELSE LET optional == U16(SubSeq(buf, 5, 6))
               ob       == ReadBytes(data, p1, optional)
               st1      == [st0 EXCEPT !.pos = ReadPos(data, p1, optional),
                                       !.short = IF Len(ob) < optional
                                                 THEN short \cup {"optional"} ELSE short]
               st2      == ReadValues(data, cols, 1, st1)
           IN  IF st2.err THEN st2
               ELSE [st2 EXCEPT !.pos = st2.pos + scc]

-----------------------------------------------------------------------------
(* Table files given to IesFile: the on-disk layout that _open unpacks.    *)

Zeros(n) == [i \in 1..n |-> 0]
Pad(s, n) == s \o Zeros(n - Len(s))
LE16(n) == <<n % 256, n \div 256>>
LE32(n) == <<n % 256, (n \div 256) % 256, (n \div 65536) % 256, n \div 16777216>>

RECURSIVE Concat(_)
Concat(ss) == IF ss = <<>> THEN <<>> ELSE Head(ss) \o Concat(Tail(ss))

\* '<HIH' after the two 64-byte obfuscated labels (lines 64-67)
ColumnRecordBytes(c) ==
  Pad(encode(c.name), NameLen) \o Pad(encode(c.name2), NameLen)
    \o LE16(c.type) \o LE32(c.unknown) \o LE16(c.position)

ColumnBlockBytes(decl) == Concat([i \in DOMAIN decl |-> ColumnRecordBytes(decl[i])])

\* '<IH' row header, the optional padding, the numeric values, the strings as
\* '<H' length + obfuscated bytes, then string_column_count trailing bytes
RowBytes(r, scc) ==
  LE32(0) \o LE16(r.optional) \o Zeros(r.optional)
    \o Concat(r.nums)
    \o Concat([i \in DOMAIN r.strs |-> LE16(Len(r.strs[i])) \o encode(r.strs[i])])
    \o Zeros(scc)

NumInts(decl) == Cardinality({i \in DOMAIN decl : decl[i].type = 0})
NumStrs(decl) == Cardinality({i \in DOMAIN decl : decl[i].type \in {1, 2}})

\* a whole table file whose last cut bytes are missing; the header's offsets
\* are those of the bytes that are present (lines 38-52)
TableFileBytes(decl, rowspecs, cut) ==
  LET scc      == NumStrs(decl)
      colblock == ColumnBlockBytes(decl)
      full     == Concat([i \in DOMAIN rowspecs |-> RowBytes(rowspecs[i], scc)])
      rowblock == SubSeq(full, 1, Len(full) - Min(cut, Len(full)))
  IN  Pad(<<116>>, TableNameLen)
        \o LE32(0) \o LE32(Len(colblock)) \o LE32(Len(rowblock)) \o LE32(0)
        \o LE16(0) \o LE16(Len(rowspecs)) \o LE16(Len(decl))
        \o LE16(NumInts(decl)) \o LE16(scc) \o LE16(0)
        \o colblock \o rowblock

\* 42.0, 3.5 and a NaN as little-endian binary32
Num42  == <<0, 0, 40, 66>>
Num3p5 == <<0, 0, 96, 64>>
NumNaN == <<0, 0, 192, 127>>
NumSamples == {Num42, Num3p5, NumNaN}
StrOk == <<111, 107>>
StrSamples == {<<>>, StrOk}

IntCol(n, p) == [name |-> <<n>>, name2 |-> <<110>>, type |-> 0, position |-> p, unknown |-> 0]
StrCol(n, p) == [name |-> <<n>>, name2 |-> <<110>>, type |-> 1, position |-> p, unknown |-> 0]

\* records named "a" of types 0, 1, 2 at positions 0 and 1 and of type 3, and
\* two records named "b" that share type and position with one of them
ColSamples ==
  {[name |-> <<97>>, name2 |-> <<110>>, type |-> t, position |-> p, unknown |-> 0] :
     t \in 0..2, p \in 0..1}
    \cup {[name |-> <<97>>, name2 |-> <<110>>, type |-> 3, position |-> 0, unknown |-> 0]}
    \cup {IntCol(98, 0), StrCol(98, 0)}

RowSpecs(ni, ns) ==
  {[optional |-> o, nums |-> n, strs |-> s] :
     o \in {0, 1}, n \in [1..ni -> NumSamples], s \in [1..ns -> StrSamples]}

DefaultRow(decl) ==
  [optional |-> 0, nums |-> [i \in 1..NumInts(decl) |-> Num42],
   strs |-> [i \in 1..NumStrs(decl) |-> StrOk]]

\* every column block of up to MaxCols records, one well-formed row
InputsByColumns ==
  {[decl |-> d, data |-> TableFileBytes(d, <<DefaultRow(d)>>, 0)] :
     d \in SeqsUpTo(ColSamples, MaxCols)}

\* two fixed column blocks, every row content of up to MaxRows rows, and up to
\* MaxCut bytes missing at the end of the file
InputsByRows ==
  UNION {{[decl |-> d, data |-> TableFileBytes(d, rs, cut)] :
            rs \in SeqsUpTo(RowSpecs(NumInts(d), NumStrs(d)), MaxRows), cut \in 0..MaxCut} :
         d \in {<<IntCol(97, 0), StrCol(98, 0)>>, <<IntCol(97, 1), IntCol(98, 0)>>}}

\* files cut inside the fixed headers or the column block, a header whose
\* offsets point before the start of the file, a table name that is not ASCII
InputsBroken ==
  LET d    == <<IntCol(97, 0)>>
      good == TableFileBytes(d, <<DefaultRow(d)>>, 0)
      far  == Pad(<<116>>, TableNameLen) \o LE32(0) \o LE32(500) \o LE32(0) \o LE32(0)
                \o LE16(0) \o LE16(0) \o LE16(0) \o LE16(0) \o LE16(0) \o LE16(0)
      many == TableFileBytes(<<>>, <<>>, 0)
  IN  {[decl |-> <<>>, data |-> SubSeq(good, 1, n)] : n \in {0, 100, 140, 150}}
        \cup {[decl |-> <<>>, data |-> far]}
        \cup {[decl |-> <<>>, data |-> [good EXCEPT ![1] = 200]]}
        \cup {[decl |-> <<>>, data |-> [many EXCEPT ![149] = 1]]}

IesInputs == InputsByColumns \cup InputsByRows \cup InputsBroken

-----------------------------------------------------------------------------
(* IesFile: state machine of the constructor                               *)

IesInit ==
  /\ \E inp \in IesInputs : iesDecl = inp.decl /\ iesData = inp.data
  /\ iesPos = 0
  /\ iesPc = "start"
  /\ iesHdr = NoHeader
  /\ table_name = <<>>
  /\ columns = <<>>
  /\ rows = <<>>
  /\ iesI = 0
  /\ intval = UnboundInt
  /\ iesShort = {}

\* lines 38-61
IesReadHeader ==
  /\ iesPc = "start"
  /\ LET r == IesHeader(iesData)
     IN  /\ iesPc' = IF r.err THEN "raised" ELSE "columns"
         /\ iesPos' = r.pos
         /\ iesHdr' = r.hdr
         /\ table_name' = r.table_name
  /\ UNCHANGED <<iesDecl, iesData, columns, rows, iesI, intval, iesShort>>
  /\ UNCHANGED <<strVars, ipfVars, concVars>>

\* lines 62-86: the column loop, the sort, the seek to the row block
IesReadColumns ==
  /\ iesPc = "columns"
  /\ LET r      == ReadColumns(iesData, iesPos, iesHdr.column_count, <<>>, <<>>)
         target == Len(iesData) - iesHdr.resource_offset
     IN  IF r.err
         THEN /\ iesPc' = "raised"
              /\ iesPos' = r.pos
              /\ UNCHANGED columns
         ELSE /\ columns' = ColumnsOf(r.int_columns, r.str_columns)
              /\ iesPc' = IF target < 0 THEN "raised" ELSE "rows"
              /\ iesPos' = IF target < 0 THEN r.pos ELSE target
  /\ UNCHANGED <<iesDecl, iesData, iesHdr, table_name, rows, iesI, intval, iesShort>>
  /\ UNCHANGED <<strVars, ipfVars, concVars>>

\* lines 88-123: one iteration of the row loop
IesReadRow ==
  /\ iesPc = "rows"
  /\ iesI < iesHdr.row_count
  /\ LET r == ReadRow(iesData, iesPos, columns, intval, iesHdr.string_column_count, iesShort)
     IN  /\ iesPos' = r.pos
         /\ intval' = r.intval
         /\ iesShort' = r.short
         /\ IF r.err
            THEN iesPc' = "raised" /\ UNCHANGED <<rows, iesI>>
            ELSE iesPc' = "rows" /\ rows' = Append(rows, r.row) /\ iesI' = iesI + 1
  /\ UNCHANGED <<iesDecl, iesData, iesHdr, table_name, columns>>
  /\ UNCHANGED <<strVars, ipfVars, concVars>>

\* the row loop is exhausted: _open and the constructor return
IesFinish ==
  /\ iesPc = "rows"
  /\ iesI >= iesHdr.row_count
  /\ iesPc' = "done"
  /\ UNCHANGED <<iesDecl, iesData, iesPos, iesHdr, table_name, columns, rows,
                 iesI, intval, iesShort>>
  /\ UNCHANGED <<strVars, ipfVars, concVars>>

-----------------------------------------------------------------------------
(* IpfArchive: pure steps                                                  *)

\* line 9
SUPPORTED_FORMATS == {<<80, 75, 5, 6>>}

\* a plausible slip: the format test left out
AnyFormatSupported(format) == TRUE

\* line 128: self._format in SUPPORTED_FORMATS
FormatSupported(format) == format \in SUPPORTED_FORMATS

NoFooter == [file_count |-> 0, filetable_offset |-> 0, filefooter_offset |-> 0,
             format |-> <<>>, base_revision |-> 0, revision |-> 0]

\* lines 115-129: seek(-24, 2) raises when the file is shorter than 24 bytes;
\* the footer is unpacked as '<HIHI4sII'; an unsupported format raises.
IpfFooter(data) ==
  IF Len(data) < 24
  THEN [err |-> TRUE, hdr |-> NoFooter, pos |-> 0]
  ELSE LET b == ReadBytes(data, Len(data) - 24, 24)
           h == [file_count        |-> U16(SubSeq(b, 1, 2)),
                 filetable_offset  |-> U32(SubSeq(b, 3, 6)),
                 filefooter_offset |-> U32(SubSeq(b, 9, 12)),
                 format            |-> SubSeq(b, 13, 16),
                 base_revision     |-> U32(SubSeq(b, 17, 20)),
                 revision          |-> U32(SubSeq(b, 21, 24))]
       IN  IF ~FormatSupported(h.format)
           THEN [err |-> TRUE, hdr |-> h, pos |-> Len(data)]
           \* line 132: seek(self._filetable_offset, 0)
           ELSE [err |-> FALSE, hdr |-> h, pos |-> h.filetable_offset]

NoInfo == [filename |-> <<>>, archivename |-> <<>>, filename_length |-> 0,
           archivename_length |-> 0, crc |-> 0, compressed_length |-> 0,
           uncompressed_length |-> 0, data_offset |-> 0]

\* lines 134-137 with IpfInfo.from_buffer (lines 44-53): '<HIIIIH', then the
\* archive name and the file name
ReadInfo(data, pos) ==
  LET buf == ReadBytes(data, pos, 20)
      p1  == ReadPos(data, pos, 20)
  IN  IF Len(buf) # 20
      THEN [err |-> TRUE, info |-> NoInfo, pos |-> p1]
      ELSE LET flen == U16(SubSeq(buf, 1, 2))
               alen == U16(SubSeq(buf, 19, 20))
               p2   == ReadPos(data, p1, alen)
           IN  [err |-> FALSE, pos |-> ReadPos(data, p2, flen),
                info |-> [filename            |-> ReadBytes(data, p2, flen),
                          archivename         |-> ReadBytes(data, p1, alen),
                          filename_length     |-> flen,
                          archivename_length  |-> alen,
                          crc                 |-> U32(SubSeq(buf, 3, 6)),
                          compressed_length   |-> U32(SubSeq(buf, 7, 10)),
                          uncompressed_length |-> U32(SubSeq(buf, 11, 14)),
                          data_offset         |-> U32(SubSeq(buf, 15, 18))]]

\* str.lower() on bytes: only A-Z change
Lower(s) == [i \in DOMAIN s |-> IF s[i] \in 65..90 THEN s[i] + 32 ELSE s[i]]

EmptyFiles == [k \in {} |-> NoInfo]

\* line 143: self.files[key] = info
Put(fs, key, info) == [k \in DOMAIN fs \cup {key} |-> IF k = key THEN info ELSE fs[k]]

\* lines 133-143: one iteration of the file-table loop
ReadEntry(data, pos, fs) ==
  LET r == ReadInfo(data, pos)
  IN  IF r.err THEN [err |-> TRUE, files |-> fs, pos |-> r.pos]
      ELSE IF Lower(r.info.filename) \in DOMAIN fs
      THEN [err |-> TRUE, files |-> fs, pos |-> r.pos]
      ELSE [err |-> FALSE, files |-> Put(fs, Lower(r.info.filename), r.info), pos |-> r.pos]

\* zlib.decompress(data, -15) for streams of stored blocks (BTYPE 00): a header
\* byte, LEN and its complement NLEN, LEN literal bytes; bytes after the final
\* block are ignored.  A truncated stream, LEN/NLEN that disagree and BTYPE 11
\* raise zlib.error.  Huffman-coded blocks (BTYPE 01, 10) are outside the
\* model and no archive of the model holds one.
RECURSIVE InflateBlocks(_, _)
InflateBlocks(d, out) ==
  IF Len(d) = 0 THEN [err |-> TRUE, out |-> <<>>]
  ELSE LET bfinal == d[1] % 2
           btype  == (d[1] \div 2) % 4
       IN  IF btype # 0 \/ Len(d) < 5 THEN [err |-> TRUE, out |-> <<>>]
           ELSE LET len  == U16(SubSeq(d, 2, 3))
                    nlen == U16(SubSeq(d, 4, 5))
                IN  IF len + nlen # 65535 \/ Len(d) < 5 + len
                    THEN [err |-> TRUE, out |-> <<>>]
                    ELSE IF bfinal = 1
                    THEN [err |-> FALSE, out |-> out \o SubSeq(d, 6, 5 + len)]
                    ELSE InflateBlocks(SubSeq(d, 6 + len, Len(d)), out \o SubSeq(d, 6, 5 + len))

Inflate(d) == InflateBlocks(d, <<>>)

\* results of get_data: None, a byte string, or an exception
GdNone      == [kind |-> "none", bytes |-> <<>>]
GdData(b)   == [kind |-> "data", bytes |-> b]
GdRaised    == [kind |-> "raised", bytes |-> <<>>]

\* a plausible slip: seek relative to the cursor
SeekFromCursor(pos, offset) == pos + offset

\* line 175: file_handle.seek(info.data_offset)
SeekTo(pos, offset) == offset

\* lines 177-179
ReturnData(info, data) ==
  IF info.compressed_length = info.uncompressed_length THEN GdData(data)
  ELSE LET r == Inflate(data) IN IF r.err THEN GdRaised ELSE GdData(r.out)

\* a plausible slip: get looks the name up as given
KeyAsGiven(filename) == filename

\* line 156: key = filename.lower()
KeyOf(filename) == Lower(filename)

\* lines 156-159: IpfArchive.get
Get(fs, filename) ==
  IF KeyOf(filename) \notin DOMAIN fs
  THEN [found |-> FALSE, info |-> NoInfo]
  ELSE [found |-> TRUE, info |-> fs[KeyOf(filename)]]

\* lines 172-179: get_data as one call on one handle
GetData(fs, data, pos, filename) ==
  LET g == Get(fs, filename)
      p == SeekTo(pos, g.info.data_offset)
  IN  IF ~g.found THEN [result |-> GdNone, pos |-> pos]
      ELSE [result |-> ReturnData(g.info, ReadBytes(data, p, g.info.compressed_length)),
            pos    |-> ReadPos(data, p, g.info.compressed_length)]

-----------------------------------------------------------------------------
(* The file system extract_all writes to: regular files (path -> content)  *)
(* and directories, paths as byte strings; <<>> is the current directory.  *)

Slash == 47

\* posixpath.join(a, b)
Join(a, b) ==
  IF b # <<>> /\ Head(b) = Slash THEN b
  ELSE IF a = <<>> \/ a[Len(a)] = Slash THEN a \o b
  ELSE a \o <<Slash>> \o b

\* posixpath.split(p): head and tail around the last slash; trailing slashes
\* of the head are dropped unless it is all slashes
Split(p) ==
  LET idx  == {i \in DOMAIN p : p[i] = Slash}
      last == IF idx = {} THEN 0 ELSE CHOOSE i \in idx : \A j \in idx : j <= i
      head == SubSeq(p, 1, last)
      tail == SubSeq(p, last + 1, Len(p))
  IN  [head |-> IF RStrip(head, Slash) = <<>> THEN head ELSE RStrip(head, Slash),
       tail |-> tail]

Exists(vol, p) == p = <<>> \/ p \in vol.dirs \/ p \in DOMAIN vol.files
IsDir(vol, p) == p = <<>> \/ p \in vol.dirs

\* os.mkdir(name): the parent must be a directory and name must not exist
MkDir(vol, name) ==
  IF name = <<>> \/ Exists(vol, name) \/ ~IsDir(vol, Split(name).head)
  THEN [err |-> TRUE, fsys |-> vol]
  ELSE [err |-> FALSE, fsys |-> [vol EXCEPT !.dirs = @ \cup {name}]]

\* os.makedirs(name): the missing ancestors first (an ancestor that exists
\* already is not an error), then mkdir(name)
RECURSIVE MakeDirs(_, _)
MakeDirs(vol, name) ==
  LET s1 == Split(name)
      s  == IF s1.tail = <<>> THEN Split(s1.head) ELSE s1
  IN  IF s.head # <<>> /\ s.tail # <<>> /\ ~Exists(vol, s.head)
      THEN MkDir(MakeDirs(vol, s.head).fsys, name)
      ELSE MkDir(vol, name)

\* open(path, 'wb'): creates or truncates; raises IOError when the path is a
\* directory or its parent is not one
OpenWrite(vol, path) ==
  IF path = <<>> \/ IsDir(vol, path) \/ ~IsDir(vol, Split(path).head)
  THEN [err |-> TRUE, fsys |-> vol]
  ELSE [err |-> FALSE,
        fsys |-> [vol EXCEPT !.files =
                    [q \in DOMAIN vol.files \cup {path} |-> IF q = path THEN <<>> ELSE vol.files[q]]]]

\* f.write(data) on a file opened by OpenWrite
WriteFile(vol, path, data) == [vol EXCEPT !.files[path] = data]

\* line 190: os.path.join(output_dir, info.archivename, filename) where
\* filename is the key the loop iterates over
OutputFile(outdir, info, filename) == Join(Join(outdir, info.archivename), filename)

\* lines 189-205: the body of extract_all's loop for the key filename.
\* wfail: whether the operating system fails the write (disk full).
\* raised: an exception leaves the loop and extract_all.
ExtractOne(fs, data, pos, vol, outdir, filename, wfail) ==
  LET info        == fs[filename]
      output_file == OutputFile(outdir, info, filename)
      md          == MakeDirs(vol, Split(output_file).head)
      op          == OpenWrite(md.fsys, output_file)
      gd          == GetData(fs, data, pos, filename)
      same        == [raised |-> FALSE, reported |-> FALSE, fsys |-> vol, pos |-> pos]
  IN  IF output_file \in DOMAIN vol.files THEN same
      ELSE IF op.err THEN [same EXCEPT !.raised = TRUE, !.fsys = md.fsys]
      ELSE IF gd.result.kind # "data" \/ wfail
      THEN [same EXCEPT !.reported = TRUE, !.fsys = op.fsys, !.pos = gd.pos]
      ELSE [same EXCEPT !.fsys = WriteFile(op.fsys, output_file, gd.result.bytes),
                        !.pos = gd.pos]

-----------------------------------------------------------------------------
(* Archives given to IpfArchive: payloads, file table, 24-byte footer.     *)

RECURSIVE SumLen(_)
SumLen(ss) == IF ss = <<>> THEN 0 ELSE Len(Head(ss)) + SumLen(Tail(ss))

\* '<HIIIIH' + archive name + file name (lines 45, 136, 137)
InfoBytes(e, offset) ==
  LE16(Len(e.filename)) \o LE32(0) \o LE32(Len(e.disk)) \o LE32(e.ulen) \o LE32(offset)
    \o LE16(Len(e.archivename)) \o e.archivename \o e.filename

\* '<HIHI4sII' (line 119)
FooterBytes(count, table_at, footer_at, tag) ==
  LE16(count) \o LE32(table_at) \o LE16(0) \o LE32(footer_at) \o tag \o LE32(0) \o LE32(1)

ArchiveBytes(entries, tag) ==
  LET payloads == [i \in DOMAIN entries |-> entries[i].disk]
      area     == Concat(payloads)
      table    == Concat([i \in DOMAIN entries |->
                    InfoBytes(entries[i], SumLen(SubSeq(payloads, 1, i - 1)))])
  IN  area \o table \o FooterBytes(Len(entries), Len(area), Len(area) + Len(table), tag)

\* one stored deflate block holding b: BFINAL=1 BTYPE=00, LEN, NLEN, the bytes
StoredBlock(b) == <<1>> \o LE16(Len(b)) \o LE16(65535 - Len(b)) \o b

\* sample entries.  plain: the content the payload stands for; ok: whether
\* the payload can be unpacked at all
EntryA == [filename |-> <<65>>, archivename |-> <<98>>, disk |-> <<7, 8>>, ulen |-> 2,
           plain |-> <<7, 8>>, ok |-> TRUE]
EntryLowerA == [filename |-> <<97>>, archivename |-> <<98>>, disk |-> <<9>>, ulen |-> 1,
                plain |-> <<9>>, ok |-> TRUE]
EntryDeflated == [filename |-> <<100, 47, 67>>, archivename |-> <<98>>,
                  disk |-> StoredBlock(<<9>>), ulen |-> 1, plain |-> <<9>>, ok |-> TRUE]
EntryWrongLength == [filename |-> <<101>>, archivename |-> <<103>>,
                     disk |-> StoredBlock(<<5>>), ulen |-> 2, plain |-> <<5>>, ok |-> TRUE]
EntryCorrupt == [filename |-> <<102>>, archivename |-> <<98>>, disk |-> <<7>>, ulen |-> 3,
                 plain |-> <<>>, ok |-> FALSE]
EntrySamples == {EntryA, EntryLowerA, EntryDeflated, EntryWrongLength, EntryCorrupt}

NoRepeat(s) == \A i, j \in DOMAIN s : s[i] = s[j] => i = j

PK56 == <<80, 75, 5, 6>>
OtherTag == <<80, 75, 3, 4>>

IpfInputs ==
  {[entries |-> es, data |-> ArchiveBytes(es, tag)] :
     es \in {s \in SeqsUpTo(EntrySamples, MaxEntries) : NoRepeat(s)}, tag \in {PK56, OtherTag}}
    \cup {[entries |-> <<>>, data |-> <<80, 75, 5, 6>>]}

OutDir == <<111>>
EmptyFs == [files |-> [q \in {} |-> <<>>], dirs |-> {}]
\* o/b is a regular file
BlockedFs == [files |-> [q \in {<<111, 47, 98>>} |-> <<1>>], dirs |-> {<<111>>}]
\* o/b/a exists already
PresentFs == [files |-> [q \in {<<111, 47, 98, 47, 97>>} |-> <<1>>],
              dirs |-> {<<111>>, <<111, 47, 98>>}]
FsSamples == {EmptyFs, BlockedFs, PresentFs}

NameSamples == {<<65>>, <<97>>, <<100, 47, 67>>, <<68, 47, 99>>, <<101>>, <<102>>, <<122>>}

-----------------------------------------------------------------------------
(* IpfArchive: state machine of the constructor, get_data and extract_all  *)

IpfInit ==
  /\ \E inp \in IpfInputs : ipfEntries = inp.entries /\ ipfData = inp.data
  /\ ipfPos = 0
  /\ ipfPc = "start"
  /\ ipfHdr = NoFooter
  /\ files = EmptyFiles
  /\ ipfI = 0
  /\ gdPc = "none"
  /\ gdArg = <<>>
  /\ gdResult = GdNone
  /\ exPc = "idle"
  /\ exTodo = {}
  /\ exReported = {}
  /\ fsys \in FsSamples
  /\ fsys0 = fsys
  /\ output_dir = OutDir

\* lines 115-132
IpfReadFooter ==
  /\ ipfPc = "start"
  /\ LET r == IpfFooter(ipfData)
     IN  /\ ipfPc' = IF r.err THEN "raised" ELSE "table"
         /\ ipfPos' = r.pos
         /\ ipfHdr' = r.hdr
  /\ UNCHANGED <<ipfEntries, ipfData, files, ipfI, gdPc, gdArg, gdResult,
                 exPc, exTodo, exReported, fsys, fsys0, output_dir>>
  /\ UNCHANGED <<strVars, iesVars, concVars>>

\* lines 133-143: one iteration of the file-table loop
IpfReadEntry ==
  /\ ipfPc = "table"
  /\ ipfI < ipfHdr.file_count
  /\ LET r == ReadEntry(ipfData, ipfPos, files)
     IN  /\ ipfPc' = IF r.err THEN "raised" ELSE "table"
         /\ ipfPos' = r.pos
         /\ files' = r.files
         /\ ipfI' = IF r.err THEN ipfI ELSE ipfI + 1
  /\ UNCHANGED <<ipfEntries, ipfData, ipfHdr, gdPc, gdArg, gdResult,
                 exPc, exTodo, exReported, fsys, fsys0, output_dir>>
  /\ UNCHANGED <<strVars, iesVars, concVars>>

\* the loop is exhausted: _open and the constructor return the archive
IpfOpened ==
  /\ ipfPc = "table"
  /\ ipfI >= ipfHdr.file_count
  /\ ipfPc' = "ready"
  /\ UNCHANGED <<ipfEntries, ipfData, ipfPos, ipfHdr, files, ipfI, gdPc, gdArg, gdResult,
                 exPc, exTodo, exReported, fsys, fsys0, output_dir>>
  /\ UNCHANGED <<strVars, iesVars, concVars>>

\* lines 161-179: a caller's get_data(filename)
IpfGetData ==
  /\ ipfPc = "ready"
  /\ exPc = "idle"
  /\ \E filename \in NameSamples :
       LET r == GetData(files, ipfData, ipfPos, filename)
       IN  /\ gdPc' = "returned"
           /\ gdArg' = filename
           /\ gdResult' = r.result
           /\ ipfPos' = r.pos
  /\ UNCHANGED <<ipfEntries, ipfData, ipfPc, ipfHdr, files, ipfI,
                 exPc, exTodo, exReported, fsys, fsys0, output_dir>>
  /\ UNCHANGED <<strVars, iesVars, concVars>>

\* line 188: extract_all is called and starts iterating over self.files
ExtractStart ==
  /\ ipfPc = "ready"
  /\ exPc = "idle"
  /\ exPc' = "running"
  /\ exTodo' = DOMAIN files
  /\ UNCHANGED <<ipfEntries, ipfData, ipfPos, ipfPc, ipfHdr, files, ipfI, gdPc, gdArg,
                 gdResult, exReported, fsys, fsys0, output_dir>>
  /\ UNCHANGED <<strVars, iesVars, concVars>>

\* lines 188-205: one iteration; a dict is iterated in no particular order
ExtractStep ==
  /\ exPc = "running"
  /\ \E filename \in exTodo, wfail \in BOOLEAN :
       LET r == ExtractOne(files, ipfData, ipfPos, fsys, output_dir, filename, wfail)
       IN  /\ exTodo' = exTodo \ {filename}
           /\ exPc' = IF r.raised THEN "raised" ELSE "running"
           /\ exReported' = IF r.reported THEN exReported \cup {filename} ELSE exReported
           /\ fsys' = r.fsys
           /\ ipfPos' = r.pos
  /\ UNCHANGED <<ipfEntries, ipfData, ipfPc, ipfHdr, files, ipfI, gdPc, gdArg, gdResult,
                 fsys0, output_dir>>
  /\ UNCHANGED <<strVars, iesVars, concVars>>

\* the loop is exhausted: extract_all returns
ExtractFinish ==
  /\ exPc = "running"
  /\ exTodo = {}
  /\ exPc' = "done"
  /\ UNCHANGED <<ipfEntries, ipfData, ipfPos, ipfPc, ipfHdr, files, ipfI, gdPc, gdArg,
                 gdResult, exTodo, exReported, fsys, fsys0, output_dir>>
  /\ UNCHANGED <<strVars, iesVars, concVars>>

-----------------------------------------------------------------------------
(* Two get_data calls in flight on a decoded archive.  Each call is the    *)
(* seek of line 175 and then the read and return of lines 176-179; the     *)
(* steps of the two calls interleave freely.                               *)

\* lines 131-143 as one function: the index a successful _open leaves
RECURSIVE ReadEntries(_, _, _, _)
ReadEntries(data, pos, n, fs) ==
  IF n = 0 THEN [err |-> FALSE, files |-> fs, pos |-> pos]
  ELSE LET r == ReadEntry(data, pos, fs)
       IN  IF r.err THEN r ELSE ReadEntries(data, r.pos, n - 1, r.files)

OpenArchive(data) ==
  LET f == IpfFooter(data)
  IN  IF f.err THEN [err |-> TRUE, files |-> EmptyFiles, pos |-> f.pos]
      ELSE ReadEntries(data, f.pos, f.hdr.file_count, EmptyFiles)

ConcEntries == <<EntryA, EntryDeflated, EntryWrongLength, EntryCorrupt>>
Calls == {1, 2}

\* the handle a call works on
HandleOf(c) == IF cShared THEN 1 ELSE c

ConcInit ==
  /\ ipfEntries = ConcEntries
  /\ ipfData = ArchiveBytes(ConcEntries, PK56)
  /\ ipfPos = OpenArchive(ipfData).pos
  /\ ipfPc = "ready"
  /\ ipfHdr = IpfFooter(ipfData).hdr
  /\ files = OpenArchive(ipfData).files
  /\ ipfI = ipfHdr.file_count
  /\ gdPc = "none"
  /\ gdArg = <<>>
  /\ gdResult = GdNone
  /\ exPc = "idle"
  /\ exTodo = {}
  /\ exReported = {}
  /\ fsys = EmptyFs
  /\ fsys0 = EmptyFs
  /\ output_dir = OutDir
  /\ cShared \in BOOLEAN
  \* every handle was opened by a constructor of its own: its cursor is where _open left it
  /\ cPos = [h \in Calls |-> ipfPos]
  /\ cPc = [c \in Calls |-> "start"]
  /\ cName \in {n \in [Calls -> {ConcEntries[i].filename : i \in DOMAIN ConcEntries}] : n[1] # n[2]}
  /\ cFrom = [c \in Calls |-> 0]
  /\ cBuf = [c \in Calls |-> <<>>]
  /\ cResult = [c \in Calls |-> GdNone]

\* lines 172-175: look the entry up and seek to its data_offset
ConcSeek(c) ==
  /\ cPc[c] = "start"
  /\ LET g == Get(files, cName[c])
     IN  IF g.found
         THEN /\ cPos' = [cPos EXCEPT ![HandleOf(c)] = SeekTo(@, g.info.data_offset)]
              /\ cPc' = [cPc EXCEPT ![c] = "sought"]
              /\ UNCHANGED cResult
         ELSE /\ cPc' = [cPc EXCEPT ![c] = "done"]
              /\ cResult' = [cResult EXCEPT ![c] = GdNone]
              /\ UNCHANGED cPos
  /\ UNCHANGED <<cShared, cName, cFrom, cBuf>>
  /\ UNCHANGED <<strVars, iesVars, ipfVars>>

\* lines 176-179: read compressed_length bytes at the cursor and return
ConcRead(c) ==
  /\ cPc[c] = "sought"
  /\ LET info == Get(files, cName[c]).info
         h    == HandleOf(c)
         buf  == ReadBytes(ipfData, cPos[h], info.compressed_length)
     IN  /\ cFrom' = [cFrom EXCEPT ![c] = cPos[h]]
         /\ cBuf' = [cBuf EXCEPT ![c] = buf]
         /\ cPos' = [cPos EXCEPT ![h] = ReadPos(ipfData, @, info.compressed_length)]
         /\ cResult' = [cResult EXCEPT ![c] = ReturnData(info, buf)]
         /\ cPc' = [cPc EXCEPT ![c] = "done"]
  /\ UNCHANGED <<cShared, cName>>
  /\ UNCHANGED <<strVars, iesVars, ipfVars>>

-----------------------------------------------------------------------------
(* Specifications: one per component                                       *)

StrIdle ==
  /\ strS = <<>>
  /\ strEnc = <<>>
  /\ strOut = <<>>
  /\ strPc = "off"

IesIdle ==
  /\ iesDecl = <<>>
  /\ iesData = <<>>
  /\ iesPos = 0
  /\ iesPc = "off"
  /\ iesHdr = NoHeader
  /\ table_name = <<>>
  /\ columns = <<>>
  /\ rows = <<>>
  /\ iesI = 0
  /\ intval = UnboundInt
  /\ iesShort = {}

IpfIdle ==
  /\ ipfEntries = <<>>
  /\ ipfData = <<>>
  /\ ipfPos = 0
  /\ ipfPc = "off"
  /\ ipfHdr = NoFooter
  /\ files = EmptyFiles
  /\ ipfI = 0
  /\ gdPc = "none"
  /\ gdArg = <<>>
  /\ gdResult = GdNone
  /\ exPc = "off"
  /\ exTodo = {}
  /\ exReported = {}
  /\ fsys = EmptyFs
  /\ fsys0 = EmptyFs
  /\ output_dir = OutDir

ConcIdle ==
  /\ cShared = FALSE
  /\ cPos = [h \in Calls |-> 0]
  /\ cPc = [c \in Calls |-> "off"]
  /\ cName = [c \in Calls |-> <<>>]
  /\ cFrom = [c \in Calls |-> 0]
  /\ cBuf = [c \in Calls |-> <<>>]
  /\ cResult = [c \in Calls |-> GdNone]

StrNext == StrEncode \/ StrDecrypt
IesNext == IesReadHeader \/ IesReadColumns \/ IesReadRow \/ IesFinish
IpfNext ==
  \/ IpfReadFooter
  \/ IpfReadEntry
  \/ IpfOpened
  \/ IpfGetData
  \/ ExtractStart
  \/ ExtractStep
  \/ ExtractFinish
ConcNext == \E c \in Calls : ConcSeek(c) \/ ConcRead(c)

InitStr  == StrInit /\ IesIdle /\ IpfIdle /\ ConcIdle
InitIes  == IesInit /\ StrIdle /\ IpfIdle /\ ConcIdle
InitIpf  == IpfInit /\ StrIdle /\ IesIdle /\ ConcIdle
InitConc == ConcInit /\ StrIdle /\ IesIdle

SpecStr  == InitStr /\ [][StrNext]_vars
SpecIes  == InitIes /\ [][IesNext]_vars
SpecIpf  == InitIpf /\ [][IpfNext]_vars
SpecConc == InitConc /\ [][ConcNext]_vars

-----------------------------------------------------------------------------
(* Claims about the table decoder (checked under SpecIes)                  *)

Count(s, x) == Cardinality({i \in DOMAIN s : s[i] = x})
Range(s) == {s[i] : i \in DOMAIN s}
SameGroup(a, b) == (a.type = 0) = (b.type = 0)
Declared012(decl) == {i \in DOMAIN decl : decl[i].type \in {0, 1, 2}}

\* C1: when _open returns without raising, every row of rows holds exactly
\* len(columns) values, also when the file declares columns of a type
\* outside {0, 1, 2}.
C1_RowWidth ==
  iesPc = "done" => \A i \in DOMAIN rows : Len(rows[i]) = Len(columns)

C1_Witness ==
  /\ iesPc = "done"
  /\ rows # <<>>
  /\ Len(iesDecl) = 3
  /\ Len(columns) = 2
  /\ Len(rows[1]) = 2
  /\ \E i \in DOMAIN iesDecl : iesDecl[i].type = 3

\* C2: after a successful decode, columns holds the declared type-0 columns in
\* non-decreasing position, then the declared type-1/2 columns in
\* non-decreasing position; no other type appears, and no declared column of
\* type 0, 1 or 2 is missing or duplicated.
C2_ColumnOrder ==
  iesPc = "done" =>
    /\ \A i \in DOMAIN columns : columns[i].type \in {0, 1, 2}
    /\ \A i, j \in DOMAIN columns :
         i < j => /\ (columns[i].type = 0 \/ columns[j].type # 0)
                  /\ (SameGroup(columns[i], columns[j])
                        => columns[i].position <= columns[j].position)
    /\ \A x \in Range(iesDecl) \cup Range(columns) :
         Count(columns, x) = IF x.type \in {0, 1, 2} THEN Count(iesDecl, x) ELSE 0

C2_Witness ==
  /\ iesPc = "done"
  /\ Len(iesDecl) = 3
  /\ iesDecl[1].type = 2 /\ iesDecl[1].position = 1
  /\ iesDecl[2].type = 0
  /\ iesDecl[3].type = 1 /\ iesDecl[3].position = 0
  /\ columns = <<iesDecl[2], iesDecl[3], iesDecl[1]>>

Perms(s) ==
  {[i \in DOMAIN s |-> s[f[i]]] :
     f \in {g \in [DOMAIN s -> DOMAIN s] : \A a, b \in DOMAIN s : g[a] = g[b] => a = b}}

\* columns as _open decodes them from the column block that declares decl
DecodedColumns(decl) ==
  LET r == ReadColumns(ColumnBlockBytes(decl), 0, Len(decl), <<>>, <<>>)
  IN  ColumnsOf(r.int_columns, r.str_columns)

\* C3 as stated: every permutation of the declared column records decodes to
\* the same columns sequence, records sharing a position included.
C3_AnyPermutation ==
  iesPc = "done" => \A q \in Perms(iesDecl) : DecodedColumns(q) = columns

NoDistinctTies(decl) ==
  \A i, j \in Declared012(decl) :
    SameGroup(decl[i], decl[j]) /\ decl[i].position = decl[j].position
      => decl[i] = decl[j]

\* C3 amended: every permutation of the declared column records decodes to the
\* same columns sequence when no two different records of one type group
\* share a position.
C3_PermutationNoTies ==
  iesPc = "done" /\ NoDistinctTies(iesDecl)
    => \A q \in Perms(iesDecl) : DecodedColumns(q) = columns

C3_Witness ==
  /\ iesPc = "done"
  /\ NoDistinctTies(iesDecl)
  /\ Len(columns) = 2
  /\ \E i, j \in DOMAIN iesDecl :
       /\ i < j
       /\ SameGroup(iesDecl[i], iesDecl[j])
       /\ iesDecl[i].position > iesDecl[j].position
       /\ iesDecl[i].type \in {1, 2}
       /\ iesDecl[j].type \in {1, 2}

\* C8: a decode that returns a document has read every announced byte: no
\* optional padding and no string value was cut short by end-of-source.
C8_NoShortRead ==
  iesPc = "done" => iesShort = {}

-----------------------------------------------------------------------------
(* Claims about the string codec (checked under SpecStr)                   *)

NoTrailingNul(s) == s = <<>> \/ s[Len(s)] # 0

\* s without the bytes equal to c at its two ends, by index arithmetic
Trimmed(s, c) ==
  LET lead  == Cardinality({k \in DOMAIN s : \A i \in 1..k : s[i] = c})
      trail == Cardinality({k \in DOMAIN s : \A i \in k..Len(s) : s[i] = c})
  IN  IF lead = Len(s) THEN <<>> ELSE [i \in 1..(Len(s) - lead - trail) |-> s[i + lead]]

-----------------------------------------------------------------------------
(* Claims about the archive (checked under SpecIpf)                        *)

\* the format tag of the footer, read off the file's bytes
FooterTag(data) == SubSeq(data, Len(data) - 11, Len(data) - 8)
BadTag == Len(ipfData) >= 24 /\ FooterTag(ipfData) # PK56

\* C5: when the footer's format tag is not 50 4B 05 06, _open raises before it
\* reads a file-table record: files stays empty, the cursor never goes to the
\* file table and no archive is returned.
C5_BadTagRaises ==
  BadTag =>
    /\ files = EmptyFiles
    /\ ipfI = 0
    /\ ipfPc \in {"start", "raised"}
    /\ exPc = "idle"
    /\ gdPc = "none"
    /\ ipfPc = "raised" => ipfPos = Len(ipfData)

C5_Witness ==
  /\ BadTag
  /\ ipfPc = "raised"
  /\ Len(ipfEntries) = 2
  /\ ipfHdr.file_count = 2

\* the entries of the input archive that filename names, in any letter case
Named(filename) ==
  {e \in Range(ipfEntries) : Lower(e.filename) = Lower(filename)}

\* what unpacking entry e gives
Unpacked(e) == IF e.ok THEN GdData(e.plain) ELSE GdRaised

C7_FailuresIsolated ==
  exPc = "raised" => exTodo = {}

\* the path the claim names for an entry: the filename as stored
StoredPath(info) == Join(Join(output_dir, info.archivename), info.filename)

\* C10: when extract_all has returned and reported no failure, every entry
\* whose target output_dir/archivename/filename (filename as stored) did not
\* exist holds the entry's unpacked payload there, and a target that existed
\* is unchanged.
C10_ExtractedAtStoredPath ==
  exPc = "done" /\ exReported = {} =>
    \A k \in DOMAIN files :
      LET target == StoredPath(files[k])
          g      == GetData(files, ipfData, 0, files[k].filename).result
      IN  IF target \in DOMAIN fsys0.files
          THEN target \in DOMAIN fsys.files /\ fsys.files[target] = fsys0.files[target]
          ELSE /\ target \in DOMAIN fsys.files
               /\ fsys.files[target] = g.bytes

-----------------------------------------------------------------------------
(* Claim about interleaved get_data calls (checked under SpecConc)         *)

OwnOffset(c) == files[Lower(cName[c])].data_offset

\* C9: with independent handles, in every interleaving each finished call has
\* read at its own entry's data_offset and returns its own entry's payload.
\* (With a shared handle a call can read at another cursor position: the
\* state C9_SharedHandleMisread is reachable.)
C9_IndependentHandles ==
  ~cShared =>
    \A c \in Calls :
      cPc[c] = "done" =>
        \E e \in Range(ipfEntries) :
          /\ e.filename = cName[c]
          /\ cFrom[c] = OwnOffset(c)
          /\ cBuf[c] = e.disk
          /\ cResult[c] = Unpacked(e)

C9_SharedHandleMisread ==
  /\ cShared
  /\ \E c \in Calls :
       /\ cPc[c] = "done"
       /\ cFrom[c] # OwnOffset(c)
       /\ \E e \in Range(ipfEntries) : e.filename = cName[c] /\ cBuf[c] # e.disk

=============================================================================
